---- MODULE Spec2Model ----
(***************************************************************************)
(* Expense approval workflow engine of final.py: submission, sequential    *)
(* and parallel_conditional decision processing, the conditional           *)
(* evaluator, administrative override and workflow configuration updates.  *)
(* In Spec every request handler is one atomic action over the persisted   *)
(* tables; SpecCrash adds the decision handlers cut short after their      *)
(* first commit, and SpecRace serves two decision requests concurrently,   *)
(* each in the steps between which another request can run. SpecWide is    *)
(* Spec with another set of configurations, and SpecLive is the default    *)
(* sequential chain with every pending record eventually decided.          *)
(* SpecOverride records which expenses an override has succeeded on.       *)
(***************************************************************************)
EXTENDS Integers, Sequences, FiniteSets, TLC

(* ------------------------------ bounds --------------------------------- *)

\* at most this many Expense rows are submitted
MaxExpenses == 2

\* at most this many Approval rows are inserted
MaxApprovals == 3

\* at most this many PUT /workflows requests are accepted
MaxConfigUpdates == 1

(* ------------------------- roster (User, Company) ---------------------- *)

\* Python None for a user reference
NoUser == 0

Users == 1 .. 5

\* User.company_id
company_id == [u \in Users |-> IF u = 5 THEN 2 ELSE 1]

\* User.role
role == [u \in Users |->
            CASE u = 1 -> "admin"
              [] u = 2 -> "manager"
              [] u = 5 -> "admin"
              [] OTHER -> "employee"]

\* User.manager_id (NoUser when the column is NULL)
manager_id == [u \in Users |->
                  CASE u = 2 -> 1
                    [] u = 3 -> 2
                    [] OTHER -> NoUser]

Companies == {company_id[u] : u \in Users}

(* ------------------------- workflow configurations --------------------- *)

\* step descriptors of Workflow.config['steps']
StepManager == [type |-> "manager_of_submitter", role |-> "", user_id |-> NoUser]
StepAdmin == [type |-> "role", role |-> "admin", user_id |-> NoUser]
StepUser5 == [type |-> "user", role |-> "", user_id |-> 5]

\* the steps lists a PUT /workflows request may carry with type sequential
SequentialSteps ==
    { << >>,
      <<StepManager, StepAdmin>>,
      <<StepAdmin, StepManager>> }

\* the steps lists a PUT /workflows request may carry with type
\* parallel_conditional
ParallelSteps == { <<StepManager, StepAdmin, StepUser5>> }

\* Workflow.config['conditional']: None, or a dict with optional keys
CondNone == [present |-> FALSE, has_threshold |-> FALSE, threshold |-> 0,
             has_specific |-> FALSE, specific |-> {}]

Cond(hasT, t, hasS, s) ==
    [present |-> TRUE, has_threshold |-> hasT, threshold |-> t,
     has_specific |-> hasS, specific |-> s]

\* the conditional rules a PUT /workflows request may carry
Conds ==
    { CondNone,
      Cond(TRUE, 60, FALSE, {}),
      Cond(TRUE, 0, FALSE, {}),
      Cond(FALSE, 0, TRUE, {1}),
      Cond(TRUE, 100, TRUE, {2}) }

\* the config written by signup
default_config ==
    [type |-> "sequential", steps |-> <<StepManager, StepAdmin>>,
     conditional |-> CondNone]

\* the configs a PUT /workflows request may carry
ConfigSet ==
    { [type |-> "sequential", steps |-> s, conditional |-> CondNone] :
          s \in SequentialSteps }
    \cup
    { [type |-> "parallel_conditional", steps |-> s, conditional |-> c] :
          s \in ParallelSteps, c \in Conds }

\* a user step naming an id no user has: User.query.get returns None
StepUser9 == [type |-> "user", role |-> "", user_id |-> 9]

\* further configs a PUT /workflows request may carry: a sequential chain
\* whose last step resolves to nobody, and parallel steps that resolve
\* within the company
ConfigSetWide ==
    { [type |-> "sequential", steps |-> <<StepManager, StepAdmin, StepUser9>>,
       conditional |-> CondNone] }
    \cup
    { [type |-> "parallel_conditional", steps |-> <<StepManager, StepAdmin>>,
       conditional |-> c] : c \in Conds \ {CondNone} }

\* comments a request may carry (data.get('comments', ''))
Comments == {"c"}

\* Python None for a text column
Null == "null"

(* ------------------------------ state ---------------------------------- *)

VARIABLES
    expenses,    \* Expense table: sequence indexed by Expense.id
    approvals,   \* Approval table: set of rows
    workflow,    \* Workflow.config of each company
    response,    \* the last response returned to a caller
    inserted,    \* number of Approval rows inserted so far
    updates,     \* number of workflow configurations written so far
    inflight,    \* the decision requests being served, one per worker
    overridden   \* history: ids of the expenses an override has succeeded on

vars ==
    <<expenses, approvals, workflow, response, inserted, updates, inflight,
      overridden>>

db == <<expenses, approvals, workflow, inserted, updates>>

\* the workers serving requests concurrently
Workers == {"w1", "w2"}

\* a worker serving no request
Idle ==
    [pc |-> "idle", approval_id |-> 0, action |-> Null, loaded |-> Null,
     outcome |-> Null]

Init ==
    /\ expenses = << >>
    /\ approvals = {}
    /\ workflow = [c \in Companies |-> default_config]
    /\ response = "Signup successful"
    /\ inserted = 0
    /\ updates = 0
    /\ inflight = [w \in Workers |-> Idle]
    /\ overridden = {}

(* --------------------------- helper functions -------------------------- *)

\* Role.ADMIN / 'admin' as required by role_required
IsRole(u, roles) == role[u] \in roles

\* User.query.filter_by(role=..., company_id=...).first(): the lowest id
FirstWithRole(r, c) ==
    LET S == {u \in Users : role[u] = r /\ company_id[u] = c}
    IN IF S = {} THEN NoUser ELSE CHOOSE u \in S : \A v \in S : u <= v

determine_approver(employee, step, company) ==
    CASE step.type = "manager_of_submitter" -> manager_id[employee]
      [] step.type = "role" -> FirstWithRole(step.role, company)
      [] step.type = "user" ->
            IF step.user_id \in Users THEN step.user_id ELSE NoUser
      [] OTHER -> NoUser

\* rows of one expense (Approval.query.filter_by(expense_id=...))
ApprovalsOf(apps, expense_id) == {a \in apps : a.expense_id = expense_id}

\* Approval.query.get(approval_id)
GetApproval(apps, approval_id) == CHOOSE a \in apps : a.id = approval_id

ApprovalIds(apps) == {a.id : a \in apps}

\* primary key given to the n-th row inserted after the rows of apps
\* (INTEGER PRIMARY KEY of the default sqlite database: highest id + 1)
NextApprovalId(apps, n) ==
    LET ids == ApprovalIds(apps)
        top == IF ids = {} THEN 0 ELSE CHOOSE i \in ids : \A j \in ids : j <= i
    IN top + n

\* NewApproval with the step counted from 0
NewApproval_zero_based(id, expense_id, approver_id, step) ==
    [id |-> id, expense_id |-> expense_id, approver_id |-> approver_id,
     step |-> step - 1, action |-> Null, comments |-> Null]

\* Approval(expense_id=..., approver_id=..., step=...): action and comments NULL
NewApproval(id, expense_id, approver_id, step) ==
    [id |-> id, expense_id |-> expense_id, approver_id |-> approver_id,
     step |-> step, action |-> Null, comments |-> Null]

\* approval.action = ...; approval.comments = ...
Decide(apps, approval_id, action, c) ==
    {IF a.id = approval_id THEN [a EXCEPT !.action = action, !.comments = c]
     ELSE a : a \in apps}

\* next_approval inserting the row of the next step already approved
next_approval_skipped(approval, next_approver, apps) ==
    [NewApproval(NextApprovalId(apps, 1), approval.expense_id, next_approver,
                 approval.step + 1) EXCEPT !.action = "approved"]

\* next_approval with the step number not advanced
next_approval_same_step(approval, next_approver, apps) ==
    NewApproval(NextApprovalId(apps, 1), approval.expense_id, next_approver,
                approval.step)

\* the row approve_expense adds for the next step of a sequential chain
next_approval(approval, next_approver, apps) ==
    NewApproval(NextApprovalId(apps, 1), approval.expense_id, next_approver,
                approval.step + 1)

\* returns the Approval table and the expense's status after initiation
create_initial_approvals(expense_id, config, employee, company, apps) ==
    LET steps == config.steps
    IN  CASE config.type = "sequential" ->
               IF Len(steps) > 0
               THEN LET approver == determine_approver(employee, steps[1], company)
                    IN IF approver # NoUser
                       THEN [approvals |-> apps \cup
                                {NewApproval(NextApprovalId(apps, 1), expense_id,
                                             approver, 1)},
                             status |-> "pending"]
                       ELSE [approvals |-> apps, status |-> "approved"]
               ELSE [approvals |-> apps, status |-> "pending"]
          [] config.type = "parallel_conditional" ->
               LET resolved == {i \in 1 .. Len(steps) :
                                   determine_approver(employee, steps[i], company)
                                       # NoUser}
                   rank(i) == Cardinality({j \in resolved : j <= i})
               IN [approvals |-> apps \cup
                      {NewApproval(NextApprovalId(apps, rank(i)), expense_id,
                                   determine_approver(employee, steps[i], company),
                                   i) : i \in resolved},
                   status |-> "pending"]
          [] OTHER -> [approvals |-> apps, status |-> "pending"]

\* cond.get('threshold') and (approved_count / total * 100 >= cond['threshold'])
threshold_met(cond, approved_count, total) ==
    /\ cond.has_threshold
    /\ cond.threshold # 0
    /\ approved_count * 100 >= cond.threshold * total

\* specific_met consulted only when a threshold is configured
specific_met_with_threshold(cond, mine) ==
    /\ cond.has_specific
    /\ cond.has_threshold
    /\ \E a \in mine : a.action = "approved" /\ a.approver_id \in cond.specific

specific_met(cond, mine) ==
    /\ cond.has_specific
    /\ \E a \in mine : a.action = "approved" /\ a.approver_id \in cond.specific

\* all_rejected counting the rows still pending
all_rejected_strict(mine) ==
    \A a \in mine : a.action = "rejected"

all_rejected(mine) ==
    \A a \in mine : a.action # Null => a.action = "rejected"

\* SetStatus with the write lost
SetStatus_lost(exps, expense_id, status) == exps

SetStatus(exps, expense_id, status) ==
    [exps EXCEPT ![expense_id].status = status]

\* SetRejected without the comments
SetRejected_status_only(exps, expense_id, c) ==
    [exps EXCEPT ![expense_id].status = "rejected"]

\* expense.status = 'rejected'; expense.comments = ...
SetRejected(exps, expense_id, c) ==
    [exps EXCEPT ![expense_id].status = "rejected", ![expense_id].comments = c]

\* CancelPending deleting the decided rows as well
CancelPending_all(apps, expense_id) ==
    {a \in apps : a.expense_id # expense_id}

\* deletes the rows of Approval.query.filter_by(expense_id=..., action=None)
CancelPending(apps, expense_id) ==
    {a \in apps : ~(a.expense_id = expense_id /\ a.action = Null)}

\* evaluate_conditional rejecting the expense when every record is decided
\* and no rule is met
evaluate_conditional_settling(expense_id, config, apps, exps) ==
    LET mine == ApprovalsOf(apps, expense_id)
        approved_count == Cardinality({a \in mine : a.action = "approved"})
        total == Cardinality(mine)
        cond == config.conditional
    IN  IF mine = {} THEN exps
        ELSE IF ~cond.present \/ (~cond.has_threshold /\ ~cond.has_specific)
        THEN exps
        ELSE IF threshold_met(cond, approved_count, total) \/ specific_met(cond, mine)
        THEN SetStatus(exps, expense_id, "approved")
        ELSE IF all_rejected(mine) \/ \A a \in mine : a.action # Null
        THEN SetStatus(exps, expense_id, "rejected")
        ELSE exps

\* evaluate_conditional whose rejection branch reopens an expense that is
\* already rejected
evaluate_conditional_reopening(expense_id, config, apps, exps) ==
    LET mine == ApprovalsOf(apps, expense_id)
        approved_count == Cardinality({a \in mine : a.action = "approved"})
        total == Cardinality(mine)
        cond == config.conditional
    IN  IF mine = {} THEN exps
        ELSE IF ~cond.present \/ (~cond.has_threshold /\ ~cond.has_specific)
        THEN exps
        ELSE IF threshold_met(cond, approved_count, total) \/ specific_met(cond, mine)
        THEN SetStatus(exps, expense_id, "approved")
        ELSE IF all_rejected(mine)
        THEN SetStatus(exps, expense_id,
                       IF exps[expense_id].status = "rejected" THEN "pending"
                       ELSE "rejected")
        ELSE exps

\* returns the Expense table after evaluation
evaluate_conditional(expense_id, config, apps, exps) ==
    LET mine == ApprovalsOf(apps, expense_id)
        approved_count == Cardinality({a \in mine : a.action = "approved"})
        total == Cardinality(mine)
        cond == config.conditional
    IN  IF mine = {} THEN exps
        ELSE IF ~cond.present \/ (~cond.has_threshold /\ ~cond.has_specific)
        THEN exps
        ELSE IF threshold_met(cond, approved_count, total) \/ specific_met(cond, mine)
        THEN SetStatus(exps, expense_id, "approved")
        ELSE IF all_rejected(mine)
        THEN SetStatus(exps, expense_id, "rejected")
        ELSE exps

(* ------------------------------ handlers ------------------------------- *)

\* is_approver with the comparison lost
is_approver_any(approval, u) == TRUE

\* approval.approver_id == current_user.id
is_approver(approval, u) == approval.approver_id = u

\* the status codes of the refusals: invalid request, forbidden, not found
ErrorCodes == {"400", "403", "404"}

Fail(code) == response' = code /\ UNCHANGED db

\* POST /expenses; ok: the request body is valid and the currency converts
submit_expense(u, ok) ==
    IF ~IsRole(u, {"employee"}) THEN Fail("403")
    ELSE IF ~ok THEN Fail("400")
    ELSE LET id == Len(expenses) + 1
             init == create_initial_approvals(id, workflow[company_id[u]], u,
                                              company_id[u], approvals)
         IN /\ id <= MaxExpenses
            /\ inserted' = inserted + Cardinality(init.approvals \ approvals)
            /\ inserted' <= MaxApprovals
            /\ expenses' = Append(expenses,
                   [employee_id |-> u, status |-> init.status, comments |-> Null])
            /\ approvals' = init.approvals
            /\ response' = "Expense submitted"
            /\ UNCHANGED <<workflow, updates>>

\* POST /approvals/<approval_id>/approve
approve_expense(u, approval_id, c) ==
    IF ~IsRole(u, {"manager", "admin"}) THEN Fail("403")
    ELSE IF approval_id \notin ApprovalIds(approvals) THEN Fail("404")
    ELSE IF ~is_approver(GetApproval(approvals, approval_id), u) THEN Fail("403")
    ELSE LET approval == GetApproval(approvals, approval_id)
             decided == Decide(approvals, approval_id, "approved", c)
             expense_id == approval.expense_id
             config == workflow[company_id[u]]
             steps == config.steps
         IN /\ UNCHANGED <<workflow, updates>>
            /\ CASE config.type = "sequential" ->
                    IF approval.step < Len(steps)
                    THEN LET next_approver ==
                                 determine_approver(expenses[expense_id].employee_id,
                                                    steps[approval.step + 1],
                                                    company_id[u])
                         IN IF next_approver # NoUser
                            THEN /\ inserted < MaxApprovals
                                 /\ inserted' = inserted + 1
                                 /\ approvals' = decided \cup
                                       {next_approval(approval, next_approver,
                                                      approvals)}
                                 /\ response' = "Approved, forwarded to next"
                                 /\ UNCHANGED expenses
                            ELSE /\ approvals' = decided
                                 /\ response' = "Approved"
                                 /\ UNCHANGED <<expenses, inserted>>
                    ELSE /\ approvals' = decided
                         /\ expenses' = SetStatus(expenses, expense_id, "approved")
                         /\ response' = "Approved (final)"
                         /\ UNCHANGED inserted
                 [] config.type = "parallel_conditional" ->
                    /\ approvals' = decided
                    /\ expenses' = evaluate_conditional(expense_id, config, decided,
                                                        expenses)
                    /\ response' = "Approved, condition evaluated"
                    /\ UNCHANGED inserted
                 [] OTHER ->
                    /\ approvals' = decided
                    /\ response' = "Approved"
                    /\ UNCHANGED <<expenses, inserted>>

\* POST /approvals/<approval_id>/reject
reject_expense(u, approval_id, c) ==
    IF ~IsRole(u, {"manager", "admin"}) THEN Fail("403")
    ELSE IF approval_id \notin ApprovalIds(approvals) THEN Fail("404")
    ELSE IF ~is_approver(GetApproval(approvals, approval_id), u) THEN Fail("403")
    ELSE LET approval == GetApproval(approvals, approval_id)
             decided == Decide(approvals, approval_id, "rejected", c)
             expense_id == approval.expense_id
             config == workflow[company_id[u]]
         IN /\ UNCHANGED <<workflow, inserted, updates>>
            /\ approvals' = decided
            /\ response' = "Rejected"
            /\ IF config.type = "parallel_conditional"
               THEN expenses' = evaluate_conditional(expense_id, config, decided,
                                                     expenses)
               ELSE expenses' = SetRejected(expenses, expense_id, c)

\* approve_expense served by a process that dies after the commit of the
\* decision and before the commit of the successor record or of the status:
\* the caller gets no response
approve_crashed(u, approval_id, c) ==
    IF ~IsRole(u, {"manager", "admin"}) THEN Fail("403")
    ELSE IF approval_id \notin ApprovalIds(approvals) THEN Fail("404")
    ELSE IF ~is_approver(GetApproval(approvals, approval_id), u) THEN Fail("403")
    ELSE /\ approvals' = Decide(approvals, approval_id, "approved", c)
         /\ response' = "no response"
         /\ UNCHANGED <<expenses, workflow, inserted, updates>>

\* reject_expense served by a process that dies after the commit of the
\* decision and before the commit of the status
reject_crashed(u, approval_id, c) ==
    IF ~IsRole(u, {"manager", "admin"}) THEN Fail("403")
    ELSE IF approval_id \notin ApprovalIds(approvals) THEN Fail("404")
    ELSE IF ~is_approver(GetApproval(approvals, approval_id), u) THEN Fail("403")
    ELSE /\ approvals' = Decide(approvals, approval_id, "rejected", c)
         /\ response' = "no response"
         /\ UNCHANGED <<expenses, workflow, inserted, updates>>

\* the status evaluate_conditional decides to write for the rows it reads:
\* 'approved', 'rejected', or Null when it writes nothing
evaluation(expense_id, config, apps) ==
    evaluate_conditional(expense_id, config, apps,
                         SetStatus(expenses, expense_id, Null))[expense_id].status

\* approve_expense or reject_expense served by worker w under a
\* parallel_conditional configuration, first step: the record is loaded and
\* checked, the decision is committed, and the expense row is loaded into
\* the worker's session
begin_decision(w, u, approval_id, action, c) ==
    /\ inflight[w].pc = "idle"
    /\ IsRole(u, {"manager", "admin"})
    /\ approval_id \in ApprovalIds(approvals)
    /\ is_approver(GetApproval(approvals, approval_id), u)
    /\ workflow[company_id[u]].type = "parallel_conditional"
    /\ approvals' = Decide(approvals, approval_id, action, c)
    /\ inflight' = [inflight EXCEPT ![w] =
           [pc |-> "committed", approval_id |-> approval_id, action |-> action,
            loaded |-> expenses[GetApproval(approvals, approval_id).expense_id].status,
            outcome |-> Null]]
    /\ UNCHANGED <<expenses, workflow, response, inserted, updates>>

\* second step: evaluate_conditional queries the rows of the expense and
\* computes threshold_met, specific_met and all_rejected
read_approvals(w) ==
    LET approval == GetApproval(approvals, inflight[w].approval_id)
        config == workflow[company_id[approval.approver_id]]
    IN /\ inflight[w].pc = "committed"
       /\ inflight' = [inflight EXCEPT ![w].pc = "evaluated",
              ![w].outcome = evaluation(approval.expense_id, config, approvals)]
       /\ UNCHANGED <<expenses, approvals, workflow, response, inserted, updates>>

\* third step: the status computed is assigned to the expense object of the
\* worker's session and committed; the session writes the column only when
\* the value differs from the one it loaded
write_status(w) ==
    LET approval == GetApproval(approvals, inflight[w].approval_id)
        outcome == inflight[w].outcome
    IN /\ inflight[w].pc = "evaluated"
       /\ inflight' = [inflight EXCEPT ![w].pc = "done"]
       /\ expenses' = IF outcome # Null /\ outcome # inflight[w].loaded
                      THEN SetStatus(expenses, approval.expense_id, outcome)
                      ELSE expenses
       /\ response' = IF inflight[w].action = "approved"
                      THEN "Approved, condition evaluated" ELSE "Rejected"
       /\ UNCHANGED <<approvals, workflow, inserted, updates>>

\* the 'action' values an override request may carry
OverrideActions == {"approve", "reject", "cancel"}

\* POST /expenses/<expense_id>/override
override_approval(u, expense_id, action, c) ==
    IF ~IsRole(u, {"admin"}) THEN Fail("403")
    ELSE IF expense_id \notin 1 .. Len(expenses) THEN Fail("404")
    ELSE IF company_id[expenses[expense_id].employee_id] # company_id[u]
    THEN Fail("403")
    ELSE IF action \notin {"approve", "reject"} THEN Fail("400")
    ELSE /\ expenses' =
               IF action = "approve"
               THEN SetStatus(expenses, expense_id, "approved")
               ELSE SetRejected(expenses, expense_id, c)
         /\ approvals' = CancelPending(approvals, expense_id)
         /\ response' = IF action = "approve" THEN "Expense approved"
                        ELSE "Expense rejectd"
         /\ UNCHANGED <<workflow, inserted, updates>>

\* PUT /workflows
manage_workflows(u, config) ==
    IF ~IsRole(u, {"admin"}) THEN Fail("403")
    ELSE /\ updates < MaxConfigUpdates
         /\ updates' = updates + 1
         /\ workflow' = [workflow EXCEPT ![company_id[u]] = config]
         /\ response' = "Workflow updated"
         /\ UNCHANGED <<expenses, approvals, inserted>>

(* --------------------------- specification ----------------------------- *)

\* approval ids a request may name: every id in use and one that is not
RequestIds == 1 .. (MaxApprovals + 1)

\* expense ids a request may name: every id in use and one that is not
RequestExpenses == 1 .. (MaxExpenses + 1)

\* a request refused for the caller's role carries no input that matters
Submit ==
    \E u \in Users :
        \E ok \in (IF IsRole(u, {"employee"}) THEN BOOLEAN ELSE {TRUE}) :
            submit_expense(u, ok) /\ UNCHANGED <<inflight, overridden>>

Approve ==
    \E u \in Users :
        \E i \in (IF IsRole(u, {"manager", "admin"}) THEN RequestIds ELSE {1}) :
            \E c \in Comments : approve_expense(u, i, c) /\ UNCHANGED <<inflight, overridden>>

Reject ==
    \E u \in Users :
        \E i \in (IF IsRole(u, {"manager", "admin"}) THEN RequestIds ELSE {1}) :
            \E c \in Comments : reject_expense(u, i, c) /\ UNCHANGED <<inflight, overridden>>

Override ==
    \E u \in Users :
        \E e \in (IF IsRole(u, {"admin"}) THEN RequestExpenses ELSE {1}) :
            \E a \in (IF IsRole(u, {"admin"}) THEN OverrideActions ELSE {"approve"}) :
                \E c \in Comments :
                    override_approval(u, e, a, c) /\ UNCHANGED <<inflight, overridden>>

SetWorkflow ==
    \E u \in Users :
        \E config \in (IF IsRole(u, {"admin"}) THEN ConfigSet ELSE {default_config}) :
            manage_workflows(u, config) /\ UNCHANGED <<inflight, overridden>>

Next == Submit \/ Approve \/ Reject \/ Override \/ SetWorkflow

Spec == Init /\ [][Next]_vars

(* ------------------- specification with crashes ------------------------ *)

\* every step of the configuration of u's company resolves to an approver
\* for an expense submitted by u
AllStepsResolve(u) ==
    LET steps == workflow[company_id[u]].steps
    IN \A i \in 1 .. Len(steps) :
           determine_approver(u, steps[i], company_id[u]) # NoUser

\* the records GET /approvals/pending lists to their approvers
PendingApprovals == {a \in approvals : a.action = Null}

\* an employee whose chain resolves at every step submits a valid expense
SubmitResolving ==
    \E u \in Users :
        /\ AllStepsResolve(u)
        /\ submit_expense(u, TRUE)
        /\ UNCHANGED <<inflight, overridden>>

\* an approver approves a record of the pending list
ApprovePending ==
    \E r \in PendingApprovals :
        \E c \in Comments :
            approve_expense(r.approver_id, r.id, c) /\ UNCHANGED <<inflight, overridden>>

\* an approver rejects a record of the pending list
RejectPending ==
    \E r \in PendingApprovals :
        \E c \in Comments :
            reject_expense(r.approver_id, r.id, c) /\ UNCHANGED <<inflight, overridden>>

ApproveCrash ==
    \E r \in PendingApprovals :
        \E c \in Comments :
            approve_crashed(r.approver_id, r.id, c) /\ UNCHANGED <<inflight, overridden>>

RejectCrash ==
    \E r \in PendingApprovals :
        \E c \in Comments :
            reject_crashed(r.approver_id, r.id, c) /\ UNCHANGED <<inflight, overridden>>

\* the default sequential configuration stays in place: first decisions of
\* pending records, each completed or cut short by a crash
NextCrash ==
    SubmitResolving \/ ApprovePending \/ RejectPending \/ ApproveCrash
        \/ RejectCrash

SpecCrash == Init /\ [][NextCrash]_vars

(* --------------- specification with concurrent decisions --------------- *)

\* the administrator of a company installs a parallel_conditional
\* configuration
SetWorkflowParallel ==
    \E u \in Users :
        \E config \in {k \in ConfigSet : k.type = "parallel_conditional"} :
            /\ IsRole(u, {"admin"})
            /\ manage_workflows(u, config)
            /\ UNCHANGED <<inflight, overridden>>

\* an employee submits a valid expense while no decision is being served
SubmitValid ==
    \E u \in Users :
        /\ IsRole(u, {"employee"})
        /\ \A w \in Workers : inflight[w].pc = "idle"
        /\ submit_expense(u, TRUE)
        /\ UNCHANGED <<inflight, overridden>>

\* a worker starts serving the decision of a pending record that no other
\* worker is deciding
BeginDecision ==
    \E w \in Workers :
        \E r \in PendingApprovals :
            \E action \in {"approved", "rejected"} :
                \E c \in Comments :
                    /\ begin_decision(w, r.approver_id, r.id, action, c)
                    /\ UNCHANGED overridden

ReadApprovals == \E w \in Workers : read_approvals(w) /\ UNCHANGED overridden

WriteStatus == \E w \in Workers : write_status(w) /\ UNCHANGED overridden

NextRace ==
    SetWorkflowParallel \/ SubmitValid \/ BeginDecision \/ ReadApprovals
        \/ WriteStatus

SpecRace == Init /\ [][NextRace]_vars

(* ---------------- specification of the sequential chain ---------------- *)

\* the decision of record r by its approver, as either handler performs it
DecisionOn(r) ==
    \E c \in Comments :
        \/ approve_expense(r.approver_id, r.id, c)
        \/ reject_expense(r.approver_id, r.id, c)

\* the approver of the pending record with this id approves or rejects it
DecideRecord(id) ==
    \E r \in PendingApprovals :
        /\ r.id = id
        /\ DecisionOn(r)
        /\ UNCHANGED <<inflight, overridden>>

\* the default sequential configuration stays in place; employees whose
\* chain resolves at every step submit, and managers and administrators send
\* approve and reject requests
NextLive == SubmitResolving \/ Approve \/ Reject

\* every pending record is eventually decided by its approver
SpecLive ==
    /\ Init
    /\ [][NextLive]_vars
    /\ \A id \in 1 .. MaxApprovals : WF_vars(DecideRecord(id))

(* ------------------- specification with overrides recorded ------------- *)

\* an override request; when it succeeds the expense is recorded as
\* overridden
OverrideRecorded ==
    \E u \in Users :
        \E e \in (IF IsRole(u, {"admin"}) THEN RequestExpenses ELSE {1}) :
            \E a \in (IF IsRole(u, {"admin"}) THEN OverrideActions
                       ELSE {"approve"}) :
                \E c \in Comments :
                    /\ override_approval(u, e, a, c)
                    /\ overridden' = IF response' \in ErrorCodes THEN overridden
                                      ELSE overridden \cup {e}
                    /\ UNCHANGED inflight

\* the default configuration stays in place
NextOverride == Submit \/ Approve \/ Reject \/ OverrideRecorded

SpecOverride == Init /\ [][NextOverride]_vars

(* ------------- specification with the further configurations ----------- *)

SetWorkflowWide ==
    \E u \in Users :
        \E config \in (IF IsRole(u, {"admin"}) THEN ConfigSetWide
                       ELSE {default_config}) :
            manage_workflows(u, config) /\ UNCHANGED <<inflight, overridden>>

NextWide == Submit \/ Approve \/ Reject \/ Override \/ SetWorkflowWide

SpecWide == Init /\ [][NextWide]_vars

(* ----------------------------- properties ------------------------------ *)

Decisions == {"approved", "rejected"}

\* the approver of r is allowed through role_required('manager', 'admin')
MayDecide(r) == role[r.approver_id] \in {"manager", "admin"}

\* C1: a further approve or reject decision on a record whose action is
\* already set, made by its approver, fails with an error and changes
\* nothing: the record's action, the expense statuses and the set of approval
\* records stay as they were.
C1_NoDoubleDecision ==
    [][\A r \in approvals :
          (r.action \in Decisions /\ MayDecide(r) /\ DecisionOn(r))
              => /\ response' \in ErrorCodes
                 /\ approvals' = approvals
                 /\ expenses' = expenses]_vars

\* C2: once an expense's status is approved or rejected, no approve or reject
\* decision on any of its records changes that status.
C2_StatusTerminal ==
    [][\A r \in approvals :
          (expenses[r.expense_id].status \in Decisions /\ MayDecide(r)
             /\ DecisionOn(r))
              => expenses'[r.expense_id].status = expenses[r.expense_id].status]_vars

\* the configuration the decision handlers read for a decision on record r:
\* Workflow.query.filter_by(company_id=current_user.company_id)
ConfigFor(r) == workflow[company_id[r.approver_id]]

\* the submitter of the expense of record r
SubmitterOf(r) == expenses[r.expense_id].employee_id

ApprovedCount(rows) == Cardinality({a \in rows : a.action = "approved"})

\* rows of table after that were not in table before
Inserted(before, after) == {a \in after : a.id \notin ApprovalIds(before)}

\* C3: submitting under a sequential config whose steps list is empty, or
\* whose first step resolves to no approver, leaves the new expense approved
\* with zero approval records.
C3_SequentialAutoApproval ==
    [][\A u \in Users :
          LET cfg == workflow[company_id[u]]
              id == Len(expenses')
          IN (/\ cfg.type = "sequential"
              /\ \/ cfg.steps = << >>
                 \/ determine_approver(u, cfg.steps[1], company_id[u]) = NoUser
              /\ submit_expense(u, TRUE)
              /\ response' = "Expense submitted")
                 => /\ expenses'[id].status = "approved"
                    /\ ApprovalsOf(approvals', id) = {}]_vars

\* C4: under a sequential config, approving a pending record r with
\* r.step < len(steps) whose next step resolves to an approver inserts exactly
\* one row, pending, for the same expense, at step r.step + 1 with that
\* approver, deletes none, and leaves the expense's status as it was (pending
\* stays pending).
C4_SequentialAdvance ==
    [][\A r \in approvals :
          LET cfg == ConfigFor(r)
              next_approver ==
                  determine_approver(SubmitterOf(r), cfg.steps[r.step + 1],
                                     company_id[r.approver_id])
              new == Inserted(approvals, approvals')
          IN (/\ r.action = Null
              /\ MayDecide(r)
              /\ cfg.type = "sequential"
              /\ r.step < Len(cfg.steps)
              /\ next_approver # NoUser
              /\ \E c \in Comments : approve_expense(r.approver_id, r.id, c))
                 => /\ Cardinality(new) = 1
                    /\ \A n \in new :
                          /\ n.expense_id = r.expense_id
                          /\ n.step = r.step + 1
                          /\ n.approver_id = next_approver
                          /\ n.action = Null
                    /\ ApprovalIds(approvals) \subseteq ApprovalIds(approvals')
                    /\ expenses'[r.expense_id].status
                           = expenses[r.expense_id].status]_vars

C4_Witness ==
    /\ response = "Approved, forwarded to next"
    /\ \E r, n \in approvals :
          /\ r.expense_id = n.expense_id
          /\ r.step = 1 /\ r.action = "approved"
          /\ n.step = 2 /\ n.action = Null
          /\ n.approver_id = 1
          /\ ConfigFor(r).type = "sequential"
          /\ expenses[r.expense_id].status = "pending"
          /\ Cardinality(ApprovalsOf(approvals, r.expense_id)) = 2

\* C5: under a sequential config, approving a pending record r with
\* r.step >= len(steps) sets the expense's status to approved and inserts no
\* approval record.
C5_SequentialFinal ==
    [][\A r \in approvals :
          LET cfg == ConfigFor(r)
          IN (/\ r.action = Null
              /\ MayDecide(r)
              /\ cfg.type = "sequential"
              /\ r.step >= Len(cfg.steps)
              /\ \E c \in Comments : approve_expense(r.approver_id, r.id, c))
                 => /\ expenses'[r.expense_id].status = "approved"
                    /\ ApprovalIds(approvals') = ApprovalIds(approvals)]_vars

C5_Witness ==
    /\ response = "Approved (final)"
    /\ \E r \in approvals :
          /\ r.action = "approved"
          /\ ConfigFor(r).type = "sequential"
          /\ r.step = Len(ConfigFor(r).steps)
          /\ r.step = 2
          /\ expenses[r.expense_id].status = "approved"
          /\ \A a \in ApprovalsOf(approvals, r.expense_id) : a.action = "approved"

\* C6: under a sequential config, rejecting a pending record, whatever its
\* step number, sets the expense's status to rejected in the same operation
\* and the expense's comments to the comments of the record.
C6_SequentialReject ==
    [][\A r \in approvals :
          (/\ r.action = Null
           /\ MayDecide(r)
           /\ ConfigFor(r).type = "sequential"
           /\ \E c \in Comments : reject_expense(r.approver_id, r.id, c))
              => /\ expenses'[r.expense_id].status = "rejected"
                 /\ expenses'[r.expense_id].comments
                        = GetApproval(approvals', r.id).comments
                 /\ GetApproval(approvals', r.id).comments \in Comments]_vars

C6_Witness ==
    /\ response = "Rejected"
    /\ \E r \in approvals :
          /\ r.action = "rejected"
          /\ r.step = 2
          /\ ConfigFor(r).type = "sequential"
          /\ expenses[r.expense_id].status = "rejected"
          /\ expenses[r.expense_id].comments = r.comments

\* C7: under a parallel_conditional config with a conditional rule whose
\* threshold is any percentage in 0..100, after a decision on a pending record
\* is processed, approvedCount * 100 >= threshold * totalRecords over the
\* expense's records implies that the expense's status is approved.
C7_ThresholdApproves ==
    [][\A r \in approvals :
          LET cfg == ConfigFor(r)
              mine == ApprovalsOf(approvals', r.expense_id)
          IN (/\ r.action = Null
              /\ MayDecide(r)
              /\ cfg.type = "parallel_conditional"
              /\ cfg.conditional.present
              /\ cfg.conditional.has_threshold
              /\ cfg.conditional.threshold \in 0 .. 100
              /\ DecisionOn(r)
              /\ ApprovedCount(mine) * 100
                     >= cfg.conditional.threshold * Cardinality(mine))
                 => expenses'[r.expense_id].status = "approved"]_vars

\* C8: under a parallel_conditional config whose conditional rule has a
\* specific set, after a decision on a pending record is processed, an approved
\* record of the expense whose approver is in the set implies that the
\* expense's status is approved, whatever the threshold (absent included) and
\* the actions of the other records.
C8_SpecificApproves ==
    [][\A r \in approvals :
          LET cfg == ConfigFor(r)
              mine == ApprovalsOf(approvals', r.expense_id)
          IN (/\ r.action = Null
              /\ MayDecide(r)
              /\ cfg.type = "parallel_conditional"
              /\ cfg.conditional.present
              /\ cfg.conditional.has_specific
              /\ DecisionOn(r)
              /\ \E a \in mine : /\ a.action = "approved"
                                 /\ a.approver_id \in cfg.conditional.specific)
                 => expenses'[r.expense_id].status = "approved"]_vars

C8_Witness ==
    /\ response = "Approved, condition evaluated"
    /\ \E r, p \in approvals :
          /\ r.expense_id = p.expense_id
          /\ r.action = "approved"
          /\ p.action = Null
          /\ ConfigFor(r).type = "parallel_conditional"
          /\ ConfigFor(r).conditional.has_specific
          /\ ~ConfigFor(r).conditional.has_threshold
          /\ r.approver_id \in ConfigFor(r).conditional.specific
          /\ ApprovedCount(ApprovalsOf(approvals, r.expense_id)) = 1
          /\ expenses[r.expense_id].status = "approved"

\* the threshold rule of cond is satisfied by the rows
ThresholdSatisfied(cond, rows) ==
    /\ cond.has_threshold
    /\ ApprovedCount(rows) * 100 >= cond.threshold * Cardinality(rows)

\* the specific rule of cond is satisfied by the rows
SpecificSatisfied(cond, rows) ==
    /\ cond.has_specific
    /\ \E a \in rows : a.action = "approved" /\ a.approver_id \in cond.specific

\* C9: under a parallel_conditional config with a conditional rule, after a
\* decision on a pending record is processed with neither the threshold nor
\* the specific rule satisfied: if every record with a non-null action is
\* rejected the expense's status is rejected, also while other records are
\* pending; if a decided record is approved the status does not change.
C9_AllRejected ==
    [][\A r \in approvals :
          LET cfg == ConfigFor(r)
              mine == ApprovalsOf(approvals', r.expense_id)
          IN (/\ r.action = Null
              /\ MayDecide(r)
              /\ cfg.type = "parallel_conditional"
              /\ cfg.conditional.present
              /\ DecisionOn(r)
              /\ ~ThresholdSatisfied(cfg.conditional, mine)
              /\ ~SpecificSatisfied(cfg.conditional, mine))
                 => IF \A a \in mine : a.action \in {Null, "rejected"}
                    THEN expenses'[r.expense_id].status = "rejected"
                    ELSE expenses'[r.expense_id].status
                             = expenses[r.expense_id].status]_vars

C9_Witness ==
    /\ response = "Rejected"
    /\ \E r, p \in approvals :
          /\ r.expense_id = p.expense_id
          /\ r.action = "rejected"
          /\ p.action = Null
          /\ ConfigFor(r).type = "parallel_conditional"
          /\ ConfigFor(r).conditional.present
          /\ ApprovedCount(ApprovalsOf(approvals, r.expense_id)) = 0
          /\ expenses[r.expense_id].status = "rejected"

\* C10: an override with action approve or reject, on an expense in any
\* status, sets its status to approved or rejected (the comments only on
\* reject), deletes its records whose action is null, keeps its decided
\* records, and leaves the records and status of every other expense unchanged.
C10_Override ==
    [][\A u \in {v \in Users : role[v] = "admin"}, e \in 1 .. Len(expenses),
         a \in {"approve", "reject"}, c \in Comments :
          (/\ response' \notin ErrorCodes
           /\ company_id[expenses[e].employee_id] = company_id[u]
           /\ override_approval(u, e, a, c))
              => /\ expenses'[e].status
                        = (IF a = "approve" THEN "approved" ELSE "rejected")
                 /\ expenses'[e].comments
                        = (IF a = "reject" THEN c ELSE expenses[e].comments)
                 /\ ApprovalsOf(approvals', e)
                        = {x \in ApprovalsOf(approvals, e) : x.action # Null}
                 /\ Len(expenses') = Len(expenses)
                 /\ \A o \in 1 .. Len(expenses) :
                        o # e => /\ expenses'[o] = expenses[o]
                                 /\ ApprovalsOf(approvals', o)
                                        = ApprovalsOf(approvals, o)]_vars

C10_Witness ==
    /\ response = "Expense rejectd"
    /\ Len(expenses) = 2
    /\ \E e, o \in 1 .. Len(expenses) :
          /\ e # o
          /\ expenses[e].status = "rejected"
          /\ expenses[e].comments \in Comments
          /\ ApprovalsOf(approvals, e) # {}
          /\ \A x \in ApprovalsOf(approvals, e) : x.action # Null
          /\ \E x \in ApprovalsOf(approvals, o) : x.action = Null
          /\ expenses[o].status = "pending"
          /\ inserted > Cardinality(approvals)

\* C11: the conditional evaluator is idempotent. For every expense, every
\* table of approval records and every configuration, evaluating a second
\* time right after a first evaluation leaves the Expense table of the first
\* (the evaluator never writes an approval record), whatever the status of
\* the expense was, approved and rejected included; and with no conditional
\* rule in the configuration, or no record of the expense, one evaluation
\* already changes nothing.
C11_EvaluateIdempotent ==
    \A e \in 1 .. Len(expenses) :
        \A config \in ConfigSet :
            LET once == evaluate_conditional(e, config, approvals, expenses)
                twice == evaluate_conditional(e, config, approvals, once)
            IN /\ twice = once
               /\ (~config.conditional.present \/ ApprovalsOf(approvals, e) = {})
                      => once = expenses

\* an expense already approved or rejected whose status a first evaluation
\* changes and a second one keeps
C11_Witness ==
    \E e \in 1 .. Len(expenses) :
        \E config \in ConfigSet :
            LET once == evaluate_conditional(e, config, approvals, expenses)
            IN /\ expenses[e].status \in Decisions
               /\ once # expenses
               /\ evaluate_conditional(e, config, approvals, once) = once

\* the configuration of the company of the submitter of record r's expense
SubmitterConfig(r) == workflow[company_id[SubmitterOf(r)]]

\* C12: decision processing is atomic with respect to crashes. In a sequential
\* workflow whose steps all resolve, in every persisted state, the state left
\* by a crash inside an approve or reject handler included, an approved record
\* at step k has a record of the same expense at step k + 1, or k is at least
\* the number of steps and the expense is approved; and a rejected record
\* belongs to a rejected expense.
C12_CrashAtomic ==
    \A r \in approvals :
        LET steps == SubmitterConfig(r).steps
        IN /\ r.action = "approved" =>
                  \/ \E n \in ApprovalsOf(approvals, r.expense_id) :
                         n.step = r.step + 1
                  \/ /\ r.step >= Len(steps)
                     /\ expenses[r.expense_id].status = "approved"
           /\ r.action = "rejected" =>
                  expenses[r.expense_id].status = "rejected"

\* the rows of the table with the records of ids undecided again
Undecided(apps, ids) ==
    {IF a.id \in ids THEN [a EXCEPT !.action = Null, !.comments = Null] ELSE a :
        a \in apps}

\* the status of expense e after the decision of worker first is processed
\* entirely and then the decision of worker second, starting from the
\* pending expense with both records pending
SerialStatus(e, first, second) ==
    LET config == workflow[company_id[
                      GetApproval(approvals, inflight[first].approval_id).approver_id]]
        config2 == workflow[company_id[
                      GetApproval(approvals, inflight[second].approval_id).approver_id]]
        apps0 == Undecided(approvals, {inflight[first].approval_id,
                                       inflight[second].approval_id})
        apps1 == Decide(apps0, inflight[first].approval_id,
                        inflight[first].action, "c")
        exps1 == evaluate_conditional(e, config, apps1,
                                      SetStatus(expenses, e, "pending"))
        apps2 == Decide(apps1, inflight[second].approval_id,
                        inflight[second].action, "c")
    IN evaluate_conditional(e, config2, apps2, exps1)[e].status

\* C13: decisions on one expense are serialized. In a parallel_conditional
\* workflow, whatever the interleaving of two workers deciding two different
\* pending records of the same expense, once both are done the status of the
\* expense is the status that processing the two decisions one after the
\* other, in one of the two orders, produces.
C13_Serialized ==
    (\A w \in Workers : inflight[w].pc = "done") =>
        LET e1 == GetApproval(approvals, inflight["w1"].approval_id).expense_id
            e2 == GetApproval(approvals, inflight["w2"].approval_id).expense_id
        IN e1 = e2 =>
              expenses[e1].status \in {SerialStatus(e1, "w1", "w2"),
                                       SerialStatus(e1, "w2", "w1")}

\* C14: an approve or reject request on a record by a user who is not the
\* record's approver is refused with the authorization error 403 and leaves
\* the record's action, every expense status and the set of approval records
\* as they were: a step that is such a request is a step that answers 403
\* and changes neither table.
C14_NotApprover ==
    [][\/ /\ response' = "403"
          /\ approvals' = approvals
          /\ expenses' = expenses
       \/ \A r \in approvals :
              \A u \in Users \ {r.approver_id} :
                  \A c \in Comments :
                      /\ ~approve_expense(u, r.id, c)
                      /\ ~reject_expense(u, r.id, c)]_vars

\* a pending record, a manager or administrator who is not its approver, and
\* the tables as a refused request leaves them with its 403 response
C14_Witness ==
    /\ response = "403"
    /\ \E r \in approvals :
           /\ r.action = Null
           /\ expenses[r.expense_id].status = "pending"
           /\ \E u \in Users \ {r.approver_id} : IsRole(u, {"manager", "admin"})

\* C15: in a sequential workflow, in every reachable state, no two approval
\* records with a null action belong to the same expense and the same
\* approver.
C15_OnePendingPerApprover ==
    (\A k \in Companies : workflow[k].type = "sequential") =>
        \A a, b \in PendingApprovals :
            (a.expense_id = b.expense_id /\ a.approver_id = b.approver_id)
                => a = b

\* C16: submitting an expense under a parallel_conditional configuration
\* inserts, for each 1-based step index i whose step resolves to an approver,
\* exactly one record of the new expense with step i, that approver and a
\* null action; inserts no record for a step that does not resolve; keeps the
\* rows that were there; and leaves the new expense pending.
C16_ParallelSubmit ==
    [][\A u \in Users :
          LET config == workflow[company_id[u]]
              steps == config.steps
              id == Len(expenses) + 1
              new == Inserted(approvals, approvals')
          IN (/\ response' = "Expense submitted"
              /\ config.type = "parallel_conditional"
              /\ IsRole(u, {"employee"})
              /\ submit_expense(u, TRUE))
                 => /\ \A i \in 1 .. Len(steps) :
                          LET approver == determine_approver(u, steps[i],
                                                             company_id[u])
                              at_i == {a \in new : a.step = i}
                          IN IF approver = NoUser THEN at_i = {}
                             ELSE /\ Cardinality(at_i) = 1
                                  /\ \A a \in at_i :
                                         /\ a.approver_id = approver
                                         /\ a.action = Null
                                         /\ a.expense_id = id
                    /\ \A a \in new : a.step \in 1 .. Len(steps)
                    /\ approvals \subseteq approvals'
                    /\ Len(expenses') = id
                    /\ expenses'[id].status = "pending"]_vars

\* an expense just submitted under a parallel_conditional configuration by an
\* employee without manager: its first step resolves to nobody and has no
\* record, the other steps have one pending record each
C16_Witness ==
    /\ response = "Expense submitted"
    /\ Len(expenses) > 0
    /\ LET id == Len(expenses)
           u == expenses[id].employee_id
           config == workflow[company_id[u]]
           mine == ApprovalsOf(approvals, id)
       IN /\ config.type = "parallel_conditional"
          /\ manager_id[u] = NoUser
          /\ config.steps[1].type = "manager_of_submitter"
          /\ {a.step : a \in mine} = 2 .. Len(config.steps)
          /\ Cardinality(mine) = Len(config.steps) - 1
          /\ \A a \in mine : a.action = Null
          /\ expenses[id].status = "pending"

\* C17: in a sequential workflow, approving a pending record R with
\* R.step below the number of steps, when the next step resolves to no
\* approver, stalls the chain: R becomes approved, no record is inserted or
\* deleted, the status of the expense is unchanged, and the expense is left
\* without any pending record.
C17_SequentialStall ==
    [][\A r \in approvals :
          LET cfg == ConfigFor(r)
          IN (/\ response' = "Approved"
              /\ r.action = Null
              /\ MayDecide(r)
              /\ cfg.type = "sequential"
              /\ r.step < Len(cfg.steps)
              /\ determine_approver(SubmitterOf(r), cfg.steps[r.step + 1],
                                    company_id[r.approver_id]) = NoUser
              /\ \E c \in Comments : approve_expense(r.approver_id, r.id, c))
                 => /\ GetApproval(approvals', r.id).action = "approved"
                    /\ ApprovalIds(approvals') = ApprovalIds(approvals)
                    /\ expenses'[r.expense_id].status =
                           expenses[r.expense_id].status
                    /\ \A a \in ApprovalsOf(approvals', r.expense_id) :
                           a.action # Null]_vars

\* the Approval and Expense tables a decision on record r leaves when the
\* handler processes it under configuration config of company k: sequential
\* advance or final approval, parallel evaluation, rejection handling
ProcessedUnder(r, action, c, config, k) ==
    LET decided == Decide(approvals, r.id, action, c)
        e == r.expense_id
        steps == config.steps
        next_approver == determine_approver(SubmitterOf(r), steps[r.step + 1], k)
    IN  IF config.type = "parallel_conditional"
        THEN <<decided, evaluate_conditional(e, config, decided, expenses)>>
        ELSE IF action = "rejected"
        THEN <<decided, SetRejected(expenses, e, c)>>
        ELSE IF config.type # "sequential"
        THEN <<decided, expenses>>
        ELSE IF r.step >= Len(steps)
        THEN <<decided, SetStatus(expenses, e, "approved")>>
        ELSE IF next_approver = NoUser
        THEN <<decided, expenses>>
        ELSE <<decided \cup {next_approval(r, next_approver, approvals)},
               expenses>>

\* C18: when the decision of a pending record R of expense E by R's approver
\* is processed, the tables it leaves are those of processing it under the
\* workflow configuration of the company of E's submitter, with that company
\* resolving the next approver, also when R's approver belongs to another
\* company.
C18_SubmitterConfig ==
    [][\A r \in approvals :
          \A c \in Comments :
              LET k == company_id[SubmitterOf(r)]
              IN (/\ response' \notin ErrorCodes
                  /\ r.action = Null
                  /\ MayDecide(r))
                     => /\ approve_expense(r.approver_id, r.id, c)
                           => <<approvals', expenses'>> =
                                 ProcessedUnder(r, "approved", c, workflow[k], k)
                        /\ reject_expense(r.approver_id, r.id, c)
                           => <<approvals', expenses'>> =
                                 ProcessedUnder(r, "rejected", c, workflow[k], k)]_vars

\* C19: liveness of the sequential chain. With the sequential configuration
\* fixed, at least one step, every step resolving to an approver and every
\* pending record eventually decided by its approver, every expense
\* submitted eventually has status approved or rejected.
C19_SequentialLiveness ==
    \A e \in 1 .. MaxExpenses :
        (Len(expenses) >= e)
            ~> (Len(expenses) >= e /\ expenses[e].status \in Decisions)

\* an expense approved at the end of its chain: a record approved at each
\* of the two steps and the final approval just answered
C19_Witness ==
    /\ response = "Approved (final)"
    /\ \E e \in 1 .. Len(expenses) :
           /\ expenses[e].status = "approved"
           /\ Len(SubmitterConfig([expense_id |-> e]).steps) >= 1
           /\ \A i \in 1 .. Len(SubmitterConfig([expense_id |-> e]).steps) :
                  \E a \in ApprovalsOf(approvals, e) :
                      a.step = i /\ a.action = "approved"

\* the decision of record r is processed under a parallel_conditional
\* configuration whose conditional rule has a threshold in 1..100, and
\* leaves every record of the expense decided
LastDecision(r) ==
    LET cfg == ConfigFor(r)
    IN /\ response' \notin ErrorCodes
       /\ MayDecide(r)
       /\ cfg.type = "parallel_conditional"
       /\ cfg.conditional.present
       /\ cfg.conditional.has_threshold
       /\ cfg.conditional.threshold \in 1 .. 100
       /\ DecisionOn(r)
       /\ \A a \in ApprovalsOf(approvals', r.expense_id) : a.action # Null

\* C20 as stated: in a parallel_conditional workflow with a conditional rule
\* (threshold in 1..100) and at least one approval record, once the decision
\* of the last pending record has left every record of the expense decided,
\* the status of the expense is approved or rejected.
C20_AllDecidedTerminal ==
    [][\A r \in approvals :
          (r.action = Null /\ LastDecision(r))
              => expenses'[r.expense_id].status \in Decisions]_vars

\* C20 amended: in a parallel_conditional workflow with a conditional rule
\* (threshold in 1..100) and at least one approval record, once a decision
\* has left every record of the expense decided, the expense is approved if
\* the threshold or the specific rule is met, rejected if no record is
\* approved, and otherwise keeps the status it had, which can be pending.
C20_AllDecidedOutcome ==
    [][\A r \in approvals :
          LET cond == ConfigFor(r).conditional
              mine == ApprovalsOf(approvals', r.expense_id)
          IN LastDecision(r)
                => expenses'[r.expense_id].status =
                      IF \/ ThresholdSatisfied(cond, mine)
                         \/ SpecificSatisfied(cond, mine)
                      THEN "approved"
                      ELSE IF ApprovedCount(mine) = 0 THEN "rejected"
                      ELSE expenses[r.expense_id].status]_vars

\* an expense whose records are all decided, one of them approved, below the
\* threshold of its parallel_conditional configuration, and still pending
\* after the last decision
C20_Witness ==
    /\ response \in {"Approved, condition evaluated", "Rejected"}
    /\ \E r \in approvals :
           LET cond == ConfigFor(r).conditional
               mine == ApprovalsOf(approvals, r.expense_id)
           IN /\ ConfigFor(r).type = "parallel_conditional"
              /\ cond.present
              /\ cond.has_threshold
              /\ cond.threshold \in 1 .. 100
              /\ \A a \in mine : a.action # Null
              /\ ApprovedCount(mine) > 0
              /\ ~ThresholdSatisfied(cond, mine)
              /\ ~SpecificSatisfied(cond, mine)
              /\ expenses[r.expense_id].status = "pending"

\* C21: with the sequential configuration fixed, at least one step, the
\* first step resolving, and no override, in every reachable state an
\* expense whose status is approved has, for every step k of the
\* configuration, a record at step k whose action is approved.
C21_ApprovedHasChain ==
    \A e \in 1 .. Len(expenses) :
        LET u == expenses[e].employee_id
            cfg == workflow[company_id[u]]
        IN (/\ cfg.type = "sequential"
            /\ Len(cfg.steps) >= 1
            /\ determine_approver(u, cfg.steps[1], company_id[u]) # NoUser
            /\ expenses[e].status = "approved")
               => \A k \in 1 .. Len(cfg.steps) :
                      \E a \in ApprovalsOf(approvals, e) :
                          a.step = k /\ a.action = "approved"

\* C22: an override is final. Once an override of expense E has succeeded, E
\* has no approval record with a null action, and no later approve or reject
\* request, whoever sends it and whatever record id it names (the id of a
\* record the sender saw pending before the override included), changes the
\* status of E or inserts a record for E.
C22_OverrideFinal ==
    /\ [](\A e \in overridden :
             \A a \in ApprovalsOf(approvals, e) : a.action # Null)
    /\ [][\A e \in overridden :
             (\E u \in Users : \E i \in RequestIds : \E c \in Comments :
                  \/ approve_expense(u, i, c)
                  \/ reject_expense(u, i, c))
                 => /\ expenses'[e].status = expenses[e].status
                    /\ \A a \in Inserted(approvals, approvals') :
                           a.expense_id # e]_vars

====
